---- MODULE Spec2Model ----
(***************************************************************************)
(* Model of the multi-asset analysis pipeline:                             *)
(*   main.py      StockAnalysisPipeline  (fetch, analyze_stock, run)       *)
(*   analyzer.py  GeminiAnalyzer.analyze (tenacity retry, _parse_response) *)
(*   data_provider/crypto_fetcher.py  CryptoFetcher                        *)
(* One run of StockAnalysisPipeline.run over a list of codes: one task per *)
(* list element on a ThreadPoolExecutor, the orchestrator thread collects  *)
(* the futures and finally dispatches the aggregate report.                *)
(***************************************************************************)
EXTENDS Integers, Sequences, FiniteSets, TLC

\* ------------------------------------------------------------------ bounds
\* Pool sizes 1..MaxWorkers are explored.
MaxWorkers == 2

\* stop_after_attempt(3) of the retry decorator of GeminiAnalyzer.analyze.
MaxAttempts == 3

\* ------------------------------------------------------------------- codes
\* A code is a sequence of characters.
Letters == {"A", "B", "C", "D", "E", "F", "G", "H", "I", "J", "K", "L", "M",
            "N", "O", "P", "Q", "R", "S", "T", "U", "V", "W", "X", "Y", "Z",
            "a", "b", "c", "d", "e", "f", "g", "h", "i", "j", "k", "l", "m",
            "n", "o", "p", "q", "r", "s", "t", "u", "v", "w", "x", "y", "z"}

EquityCode == <<"6", "0", "0", "5", "1", "9">>
CryptoCode == <<"B", "T", "C", "-", "U", "S", "D">>
Codes == {EquityCode, CryptoCode}

\* The lists of codes a run is started with (duplicates are legal: the
\* futures, not the codes, key future_to_code).
StockLists == {<<>>} \cup {<<c>> : c \in Codes}
                     \cup {<<c, d>> : c \in Codes, d \in Codes}

\* str.isalpha on one character.
isalpha(c) == c \in Letters

\* Mutant of is_crypto: only the first character is looked at.
is_crypto_FirstChar(code) == code # <<>> /\ isalpha(code[1])

\* StockAnalysisPipeline.is_crypto: any(c.isalpha() for c in code).
is_crypto(code) == \E i \in DOMAIN code : isalpha(code[i])

\* Python truthiness of an Optional[AnalysisResult].
None == "None"
Truthy(x) == x # None

VARIABLES
  \* ---- arguments and configuration of the run (fixed by Init)
  stock_codes,          \* run(stock_codes=...)
  max_workers,          \* self.max_workers
  dry_run,              \* run(dry_run=...)
  send_notification,    \* run(send_notification=...)
  single_stock_notify,  \* config.single_stock_notify
  api_key,              \* GeminiAnalyzer.api_key is set
  \* ---- storage collaborator (self.db), keyed by code
  db,                   \* "none" | "old" (bars of earlier days) | "today"
  \* ---- one task (future) per position of stock_codes
  pc,                   \* position of the task in process_single_stock
  todaySeen,            \* what db.has_today_data told the task
  fetchRes,             \* outcome of fetch_and_save_stock_data
  srcCalls,             \* calls of a raw data source made by the task
  saves,                \* db.save_daily_data calls made by the task
  attempts,             \* attempts of analyzer.analyze (tenacity)
  modelLog,             \* outcome of each model.generate_content call
  anaEnd,               \* how analyzer.analyze ended for the task
  waits,                \* backoff sleeps between attempts
  result,               \* value returned by the task (None or a result)
  singleSent,           \* single-result notifications sent by the task
  \* ---- orchestrator thread (run)
  opc,                  \* position of run
  collected,            \* futures as_completed has yielded
  results,              \* the list `results`
  aggCalls,             \* calls of _send_notifications
  aggSent,              \* notifier.send(report) calls of _send_notifications
  \* ---- one call of a function of the program, taken on its own
  fn,                   \* the function called ("none" during a run)
  fpc,                  \* "idle" | "call" | "return"
  arg,                  \* its arguments
  ret                   \* what it returned

cfgVars == <<stock_codes, max_workers, dry_run, send_notification,
              single_stock_notify, api_key>>
taskVars == <<pc, todaySeen, fetchRes, srcCalls, saves, attempts, modelLog,
              anaEnd, waits, result, singleSent>>
orchVars == <<opc, collected, results, aggCalls, aggSent>>
fnVars == <<fn, fpc, arg, ret>>
vars == <<cfgVars, db, taskVars, orchVars, fnVars>>

Tasks == DOMAIN stock_codes

\* ------------------------------------------------------- storage (self.db)
\* db.has_today_data(code, today)
has_today_data(code) == db[code] = "today"

\* db.save_daily_data(df, code, source_name): the dataset of the day is
\* overwritten.
save_daily_data(code) == [db EXCEPT ![code] = "today"]

\* db.get_analysis_context(code): None when nothing is stored for the code.
get_analysis_context(code) == db[code] # "none"

\* ------------------------------------------- fetch_and_save_stock_data
\* What a raw data source can do when it is called.
RawOutcomes == {"rows", "empty", "error"}

\* CryptoFetcher.get_crypto_data: an empty download and every exception
\* both come back as None.
get_crypto_data(raw) == IF raw = "rows" THEN "rows" ELSE None

\* Lines 94-100: the source is chosen by is_crypto; the equity source
\* (fetcher_manager.get_daily_data) hands back its frame or raises.
SourceResult(code, raw) ==
  IF is_crypto(code) THEN get_crypto_data(raw)
  ELSE IF raw = "error" THEN "raise" ELSE raw

\* Mutant of DedupHit: the dedup test is missing, every call fetches.
DedupHit_AlwaysFetch(code, force_refresh) == FALSE

\* Line 91: the dedup test.
DedupHit(code, force_refresh) == ~force_refresh /\ has_today_data(code)

\* Mutant of FrameIsEmpty: only None is tested, df.empty is not.
FrameIsEmpty_NoneOnly(df) == df = None

\* Line 102: df is None or df.empty.
FrameIsEmpty(df) == df = None \/ df = "empty"

\* Values of fetchRes: "ok" is (True, None), "empty" is
\* (False, "获取数据为空"), "exc" is (False, str(e)).
FetchFailed(r) == r \in {"empty", "exc"}

\* Mutant of ForceRefreshArg: the task forces a refresh.
ForceRefreshArg_True == TRUE

\* process_single_stock passes no force_refresh: the default, False.
ForceRefreshArg == FALSE

\* Mutant of SingleNotifyArg: send_notification alone is passed.
SingleNotifyArg_SendOnly == send_notification

\* Mutant of SkipAnalysisArg: dry_run is not handed to the task.
SkipAnalysisArg_NotPassed == FALSE

\* process_single_stock(code, skip_analysis, single_stock_notify): the
\* arguments run submits (line 200).
SkipAnalysisArg == dry_run
SingleNotifyArg == single_stock_notify /\ send_notification

\* Lines 180-182: what the task does once the fetch returned `r`; the
\* returned `success` is not read.
NextAfterFetch(r, skip_analysis) ==
  IF skip_analysis THEN "done" ELSE "context"

\* A task ends: its future holds a value ("done") or an exception
\* ("raised").
Terminal == {"done", "raised"}
Running == {t \in Tasks : pc[t] \notin ({"new", "pending"} \cup Terminal)}

\* Mutant of CanStart: the pool keeps one worker fewer than max_workers.
CanStart_OneWorkerShort(t) ==
  /\ pc[t] = "pending"
  /\ \A u \in Tasks : u < t => pc[u] # "pending"
  /\ Cardinality(Running) < max_workers - 1

\* Mutant of CanStart: the pool starts a thread for every work item.
CanStart_NoLimit(t) ==
  /\ pc[t] = "pending"
  /\ \A u \in Tasks : u < t => pc[u] # "pending"

\* ThreadPoolExecutor: work items are taken in submission order by at most
\* max_workers threads.
CanStart(t) ==
  /\ pc[t] = "pending"
  /\ \A u \in Tasks : u < t => pc[u] # "pending"
  /\ Cardinality(Running) < max_workers

StartTask(t) ==
  /\ opc = "collecting"
  /\ CanStart(t)
  /\ pc' = [pc EXCEPT ![t] = "fetching"]
  /\ UNCHANGED <<fnVars, cfgVars, db, todaySeen, fetchRes, srcCalls, saves, attempts,
                 modelLog, anaEnd, waits, result, singleSent, orchVars>>

\* The fetch returned r: lines 180-181.
FetchReturns(t, r) ==
  /\ fetchRes' = [fetchRes EXCEPT ![t] = r]
  /\ pc' = [pc EXCEPT ![t] = NextAfterFetch(r, SkipAnalysisArg)]

\* Lines 89-92: the dedup test; db.has_today_data, called unless a refresh
\* is forced, may raise.
FetchCheck(t) ==
  /\ pc[t] = "fetching"
  /\ \E dbRaises \in (IF ForceRefreshArg THEN {FALSE} ELSE BOOLEAN) :
       IF dbRaises
       THEN /\ FetchReturns(t, "exc")
            /\ todaySeen' = [todaySeen EXCEPT ![t] = "raised"]
       ELSE /\ todaySeen' = [todaySeen EXCEPT ![t] =
                 IF ForceRefreshArg THEN "unset"
                 ELSE IF has_today_data(stock_codes[t]) THEN "yes" ELSE "no"]
            /\ IF DedupHit(stock_codes[t], ForceRefreshArg)
               THEN FetchReturns(t, "ok")
               ELSE /\ pc' = [pc EXCEPT ![t] = "source"]
                    /\ UNCHANGED fetchRes
  /\ UNCHANGED <<fnVars, cfgVars, db, srcCalls, saves, attempts, modelLog, anaEnd,
                 waits, result, singleSent, orchVars>>

\* Lines 94-108 as a function of what the source and the save do: the
\* value fetch_and_save_stock_data returns when the dedup test missed.
FetchResult(code, raw, save_raises) ==
  LET df == SourceResult(code, raw) IN
  IF df = "raise" THEN "exc"
  ELSE IF FrameIsEmpty(df) THEN "empty"
  ELSE IF save_raises THEN "exc" ELSE "ok"

\* Lines 94-108: the source call, the emptiness test and the save.
FetchSource(t) ==
  /\ pc[t] = "source"
  /\ srcCalls' = [srcCalls EXCEPT ![t] = @ + 1]
  /\ \E raw \in RawOutcomes, saveRaises \in BOOLEAN :
       LET df == SourceResult(stock_codes[t], raw)
           r == FetchResult(stock_codes[t], raw, saveRaises)
       IN  /\ FetchReturns(t, r)
           /\ saves' = IF df = "raise" \/ FrameIsEmpty(df) THEN saves
                       ELSE [saves EXCEPT ![t] = @ + 1]
           /\ db' = IF r = "ok" THEN save_daily_data(stock_codes[t]) ELSE db
  /\ UNCHANGED <<fnVars, cfgVars, todaySeen, attempts, modelLog, anaEnd, waits,
                 result, singleSent, orchVars>>

\* ------------------------------------------------------- analyze_stock
\* Lines 112-145 up to the model call: the asset-class sources, the context
\* read, the trend analysis and the search.  Any collaborator raising is
\* caught by line 155 and the task returns None; so does a missing context
\* (line 131).
AnalysisReturns(t, r) ==
  /\ result' = [result EXCEPT ![t] = r]
  /\ pc' = [pc EXCEPT ![t] =
              IF Truthy(r) /\ SingleNotifyArg THEN "notify" ELSE "done"]

Context(t) ==
  /\ pc[t] = "context"
  /\ \E raises \in BOOLEAN :
       IF raises \/ ~get_analysis_context(stock_codes[t])
       THEN AnalysisReturns(t, None)
       ELSE pc' = [pc EXCEPT ![t] = "model"] /\ UNCHANGED result
  /\ UNCHANGED <<fnVars, cfgVars, db, todaySeen, fetchRes, srcCalls, saves, attempts,
                 modelLog, anaEnd, waits, singleSent, orchVars>>

\* ------------------------------------------------ GeminiAnalyzer.analyze
\* What model.generate_content can do: raise, or return text that is not
\* JSON, JSON that is no AnalysisResult, or a well-formed result.
ModelOutcomes == {"raise", "malformed", "schema", "good"}

\* The nine fields of AnalysisResult (analyzer.py:21-29); none has a
\* default, so each is required.
AnalysisFields ==
  {"code", "name", "operation_advice", "sentiment_score", "trend_prediction",
   "risk_level", "analysis_points", "technical_indicators", "summary"}

\* Values a response can carry as sentiment_score: integers inside and
\* outside 0..100, and a value that is no integer.
ScoreValues ==
  {[int |-> TRUE, v |-> n] : n \in {-5, 0, 50, 100, 150}}
    \cup {[int |-> FALSE, v |-> 0]}

\* A response text: whether it is JSON (and a JSON object), whether it is
\* wrapped in a ```json fence, which field it lacks, which of the other
\* fields has a value of the wrong type, and its sentiment_score.
ResponseTexts ==
  [shape : {"not_json", "not_object", "object"},
   fenced : BOOLEAN,
   missing : AnalysisFields \cup {"none"},
   mistyped : {"none", "analysis_points"},
   score : ScoreValues]

\* The texts the outcomes of a model call in a run stand for.
ResponseText(o) ==
  [shape |-> IF o = "malformed" THEN "not_json" ELSE "object",
   fenced |-> FALSE,
   missing |-> IF o = "schema" THEN "summary" ELSE "none",
   mistyped |-> "none",
   score |-> [int |-> TRUE, v |-> 50]]

\* Line 166-167: the fence is removed by re.sub, then json.loads; the
\* fence does not change what is loaded.
json_loads(text) == text.shape # "not_json"

\* Line 168, AnalysisResult(**data): data must be a mapping holding every
\* field with a value of the field's type; sentiment_score: int carries no
\* range constraint.
Constructs(text) ==
  /\ text.shape = "object"
  /\ text.missing = "none"
  /\ text.mistyped = "none"
  /\ text.score.int

\* _parse_response: JSONDecodeError and every other exception are caught
\* and None is returned.
_parse_response(text) ==
  IF json_loads(text) /\ Constructs(text) THEN "AnalysisResult" ELSE None

\* Mutant of Unconfigured: the credential test is missing.
Unconfigured_NoTest == FALSE

\* Line 79: no credential, analyze returns None before building a prompt.
Unconfigured == ~api_key

\* wait_exponential(multiplier=1, min=2, max=10) of the retry decorator.
WaitMultiplier == 1
WaitMin == 2
WaitMax == 10

Max(a, b) == IF a >= b THEN a ELSE b
Min(a, b) == IF a <= b THEN a ELSE b

RECURSIVE Pow2(_)
Pow2(n) == IF n <= 0 THEN 1 ELSE 2 * Pow2(n - 1)

\* The tenacity releases differ in the exponent: exp_base ** attempt_number
\* in the earlier ones, exp_base ** (attempt_number - 1) in the later ones.
TenacityReleases == {"earlier", "later"}

\* Mutant of wait_exponential: the lower clamp min=2 is missing.
wait_exponential_NoMin(attempt_number, release) ==
  LET exp == IF release = "later" THEN Pow2(attempt_number - 1)
             ELSE Pow2(attempt_number)
  IN Max(0, Min(WaitMultiplier * exp, WaitMax))

\* The sleep after attempt `attempt_number` failed:
\* max(max(0, min), min(multiplier * exp, max)).
wait_exponential(attempt_number, release) ==
  LET exp == IF release = "later" THEN Pow2(attempt_number - 1)
             ELSE Pow2(attempt_number)
  IN Max(Max(0, WaitMin), Min(WaitMultiplier * exp, WaitMax))

\* Mutant of ShouldRetry: the stop condition is off by one.
ShouldRetry_OffByOne(raised, attempt_number) ==
  raised /\ attempt_number <= MaxAttempts

\* retry_if_exception_type(Exception) with stop_after_attempt(3): another
\* attempt follows exactly when the attempt raised and fewer than
\* MaxAttempts attempts were made.
ShouldRetry(raised, attempt_number) == raised /\ attempt_number < MaxAttempts

\* One attempt of analyze (lines 78-106) and tenacity's decision after it.
Attempt(t) ==
  /\ pc[t] = "model"
  /\ attempts' = [attempts EXCEPT ![t] = @ + 1]
  /\ IF Unconfigured
     THEN /\ AnalysisReturns(t, None)
          /\ anaEnd' = [anaEnd EXCEPT ![t] = "returned"]
          /\ UNCHANGED <<modelLog, waits>>
     ELSE \E o \in ModelOutcomes :
            /\ modelLog' = [modelLog EXCEPT ![t] = Append(@, o)]
            /\ IF o = "raise"
               THEN IF ShouldRetry(TRUE, attempts'[t])
                    THEN \* tenacity sleeps, then calls analyze again
                         /\ waits' = [waits EXCEPT ![t] = @ + 1]
                         /\ UNCHANGED <<pc, result, anaEnd>>
                    ELSE \* RetryError, caught by analyze_stock line 155
                         /\ AnalysisReturns(t, None)
                         /\ anaEnd' = [anaEnd EXCEPT ![t] = "retry_error"]
                         /\ UNCHANGED waits
               ELSE /\ AnalysisReturns(t, _parse_response(ResponseText(o)))
                    /\ anaEnd' = [anaEnd EXCEPT ![t] = "returned"]
                    /\ UNCHANGED waits
  /\ UNCHANGED <<fnVars, cfgVars, db, todaySeen, fetchRes, srcCalls, saves, singleSent,
                 orchVars>>

\* ------------------------------------- process_single_stock, lines 183-186
\* result and single_stock_notify hold; notifier.is_available() is asked
\* and, when it is, the single-result report is generated and sent.  The
\* notifier calls are outside every try: an exception ends the task.
Notify(t) ==
  /\ pc[t] = "notify"
  /\ \E o \in {"unavailable", "sent", "raise_before_send", "send_raises"} :
       /\ singleSent' = [singleSent EXCEPT ![t] =
                           IF o \in {"sent", "send_raises"} THEN @ + 1 ELSE @]
       /\ pc' = [pc EXCEPT ![t] =
                   IF o \in {"unavailable", "sent"} THEN "done" ELSE "raised"]
  /\ UNCHANGED <<fnVars, cfgVars, db, todaySeen, fetchRes, srcCalls, saves, attempts,
                 modelLog, anaEnd, waits, result, orchVars>>

\* --------------------------------------------------------------- run
\* Lines 188-200: an empty list returns []; otherwise every code is
\* submitted to the pool.
Run ==
  /\ opc = "init"
  /\ IF stock_codes = <<>>
     THEN opc' = "returned" /\ UNCHANGED pc
     ELSE opc' = "collecting" /\ pc' = [t \in Tasks |-> "pending"]
  /\ UNCHANGED <<fnVars, cfgVars, db, todaySeen, fetchRes, srcCalls, saves, attempts,
                 modelLog, anaEnd, waits, result, singleSent, collected,
                 results, aggCalls, aggSent>>

\* Mutant of AppendResult: the result is put in front of the list.
AppendResult_Front(rs, t) == <<t>> \o rs

\* Line 204: results.append(res).
AppendResult(rs, t) == Append(rs, t)

\* Lines 201-206: as_completed yields a finished future; a truthy value is
\* appended (here: the index of the task that returned it), an exception is
\* logged.
Collect(t) ==
  /\ opc = "collecting"
  /\ t \notin collected
  /\ pc[t] \in Terminal
  /\ collected' = collected \cup {t}
  /\ results' = IF pc[t] = "done" /\ Truthy(result[t])
                THEN AppendResult(results, t) ELSE results
  /\ UNCHANGED <<fnVars, cfgVars, db, taskVars, opc, aggCalls, aggSent>>

\* Mutant of BarrierPassed: run goes on at the first finished future
\* without waiting for the pool.
BarrierPassed_FirstCompleted == collected # {}

\* The as_completed loop ends when every future was yielded, and leaving
\* the with block (executor.shutdown(wait=True)) waits for every task.
BarrierPassed ==
  /\ collected = Tasks
  /\ \A t \in Tasks : pc[t] \in Terminal

LeavePool ==
  /\ opc = "collecting"
  /\ BarrierPassed
  /\ opc' = "after_pool"
  /\ UNCHANGED <<fnVars, cfgVars, db, taskVars, collected, results, aggCalls,
                 aggSent>>

\* Mutant of ShouldAggregate: the emptiness test of `results` is missing.
ShouldAggregate_NoEmptyTest ==
  send_notification /\ ~dry_run /\ ~single_stock_notify

\* Lines 208-209: the test guarding the aggregate dispatch.
ShouldAggregate ==
  /\ results # <<>>
  /\ send_notification
  /\ ~dry_run
  /\ ~single_stock_notify

\* Lines 208-211 with _send_notifications (213-220): the report is
\* generated and saved, and sent when the notifier is available; every
\* exception is caught and logged.
Finish ==
  /\ opc = "after_pool"
  /\ opc' = "returned"
  /\ IF ShouldAggregate
     THEN /\ aggCalls' = aggCalls + 1
          /\ \E o \in {"report_raises", "unavailable", "sent", "send_raises"} :
               aggSent' = IF o \in {"sent", "send_raises"}
                          THEN aggSent + 1 ELSE aggSent
     ELSE UNCHANGED <<aggCalls, aggSent>>
  /\ UNCHANGED <<fnVars, cfgVars, db, taskVars, collected, results>>

\* ------------------------------------------------------- specification
DbStates == {"none", "old", "today"}

Init ==
  /\ stock_codes \in StockLists
  /\ max_workers \in 1..MaxWorkers
  /\ dry_run \in BOOLEAN
  /\ send_notification \in BOOLEAN
  /\ single_stock_notify \in BOOLEAN
  /\ api_key \in BOOLEAN
  \* storage may hold anything for the codes of the run; the other codes
  \* are never read or written
  /\ db \in {d \in [Codes -> DbStates] :
               \A c \in Codes :
                 (\A i \in DOMAIN stock_codes : stock_codes[i] # c)
                   => d[c] = "none"}
  /\ pc = [t \in Tasks |-> "new"]
  /\ todaySeen = [t \in Tasks |-> "unset"]
  /\ fetchRes = [t \in Tasks |-> "unset"]
  /\ srcCalls = [t \in Tasks |-> 0]
  /\ saves = [t \in Tasks |-> 0]
  /\ attempts = [t \in Tasks |-> 0]
  /\ modelLog = [t \in Tasks |-> <<>>]
  /\ anaEnd = [t \in Tasks |-> "unset"]
  /\ waits = [t \in Tasks |-> 0]
  /\ result = [t \in Tasks |-> None]
  /\ singleSent = [t \in Tasks |-> 0]
  /\ opc = "init"
  /\ collected = {}
  /\ results = <<>>
  /\ aggCalls = 0
  /\ aggSent = 0
  /\ fn = "none" /\ fpc = "idle" /\ arg = <<>> /\ ret = <<>>

Next ==
  \/ Run
  \/ \E t \in Tasks : StartTask(t)
  \/ \E t \in Tasks : FetchCheck(t)
  \/ \E t \in Tasks : FetchSource(t)
  \/ \E t \in Tasks : Context(t)
  \/ \E t \in Tasks : Attempt(t)
  \/ \E t \in Tasks : Notify(t)
  \/ \E t \in Tasks : Collect(t)
  \/ LeavePool
  \/ Finish

Spec == Init /\ [][Next]_vars

\* ------------------------------------- functions of the program, one call
\* Lengths 0..MaxCodeLen of the codes is_crypto is called with.
MaxCodeLen == 3

\* Characters of the codes: digits, a separator, lower and upper letters.
CodeChars == {"6", "0", "-", "s", "B", "Z"}
BoundedCodes == UNION {[1..n -> CodeChars] : n \in 0..MaxCodeLen}

\* An exchange-prefixed equity code.
PrefixedCode == <<"s", "h", "6", "0", "0", "5", "1", "9">>
ClassifyInputs == BoundedCodes \cup {EquityCode, CryptoCode, PrefixedCode}

\* No run is going on while one function is called on its own.
NoRun ==
  /\ stock_codes = <<>> /\ max_workers = 1
  /\ dry_run = FALSE /\ send_notification = FALSE
  /\ single_stock_notify = FALSE /\ api_key = FALSE
  /\ db = [c \in Codes |-> "none"]
  /\ pc = <<>> /\ todaySeen = <<>> /\ fetchRes = <<>> /\ srcCalls = <<>>
  /\ saves = <<>> /\ attempts = <<>> /\ modelLog = <<>> /\ anaEnd = <<>>
  /\ waits = <<>> /\ result = <<>> /\ singleSent = <<>>
  /\ opc = "idle" /\ collected = {} /\ results = <<>>
  /\ aggCalls = 0 /\ aggSent = 0

Returns(v) ==
  /\ fpc = "call"
  /\ fpc' = "return"
  /\ ret' = v
  /\ UNCHANGED <<fn, arg, cfgVars, db, taskVars, orchVars>>

\* is_crypto(code), reported as the asset class.
Classify ==
  /\ fn = "is_crypto"
  /\ Returns(IF is_crypto(arg) THEN "Crypto" ELSE "Equity")

\* _parse_response(text)
Parse ==
  /\ fn = "_parse_response"
  /\ Returns(_parse_response(arg))

\* Attempt numbers the wait is computed for.
MaxAttemptNumber == 5

\* The wait tenacity computes after a failed attempt.
Backoff ==
  /\ fn = "wait_exponential"
  /\ Returns(wait_exponential(arg.attempt_number, arg.release))

\* What the collaborators of analyze_stock answer in one call of it.
QuoteAnswers == {None, "quote", "named_quote", "raise"}
ChipAnswers == {None, "chip", "raise"}
SentimentTexts == {"", "fear_greed_text"}
ContextAnswers == {None, "context", "context_no_rows"}
AssetCodes == {EquityCode, CryptoCode, PrefixedCode, <<"B", "T", "C">>}
AnalyzeStockInputs ==
  [code : AssetCodes, sentiment : SentimentTexts, quote : QuoteAnswers,
   chip : ChipAnswers, context : ContextAnswers]

\* Mutant of ExtraContext: the sentiment text is fetched for every symbol.
ExtraContext_EveryAsset(code, sentiment) ==
  [calls |-> {"get_onchain_sentiment"}, text |-> sentiment]

\* Lines 114, 117-119: extra_context and the call that fills it.
ExtraContext(code, sentiment) ==
  IF is_crypto(code)
  THEN [calls |-> {"get_onchain_sentiment"}, text |-> sentiment]
  ELSE [calls |-> {}, text |-> ""]

\* Lines 119-126: realtime_quote and chip_data and the calls that fill
\* them; a raising quote call leaves before the chip call.
MarketData(code, quote, chip) ==
  IF is_crypto(code)
  THEN [calls |-> {}, realtime_quote |-> None, chip_data |-> None,
        raised |-> FALSE]
  ELSE IF quote = "raise"
  THEN [calls |-> {"get_realtime_quote"}, realtime_quote |-> None,
        chip_data |-> None, raised |-> TRUE]
  ELSE [calls |-> {"get_realtime_quote", "get_chip_distribution"},
        realtime_quote |-> quote,
        chip_data |-> IF chip = "raise" THEN None ELSE chip,
        raised |-> chip = "raise"]

\* Lines 159-176: the keys the enhanced context gains.
_enhance_context(realtime_quote, chip_data, trend_result) ==
  {"stock_name"}
    \cup (IF realtime_quote # None THEN {"realtime"} ELSE {})
    \cup (IF chip_data # None THEN {"chip"} ELSE {})
    \cup (IF trend_result # None THEN {"trend_analysis"} ELSE {})

NoAnalyzeCall == [outcome |-> "unset", calls |-> {}, extra_context |-> "",
                  gained |-> {}]

\* Lines 110-150: analyze_stock up to the arguments it hands to analyze.
AnalyzeStockArgs(a) ==
  LET extra == ExtraContext(a.code, a.sentiment)
      market == MarketData(a.code, a.quote, a.chip)
      calls == extra.calls \cup market.calls
      trend_result == IF a.context = "context" THEN "trend" ELSE None
  IN  IF market.raised
      THEN [NoAnalyzeCall EXCEPT !.outcome = "exception", !.calls = calls]
      ELSE IF a.context = None
      THEN [NoAnalyzeCall EXCEPT !.outcome = "no_context",
                                 !.calls = calls \cup {"get_analysis_context"}]
      ELSE [outcome |-> "analyze",
            calls |-> calls \cup {"get_analysis_context"},
            extra_context |-> extra.text,
            gained |-> _enhance_context(market.realtime_quote,
                                        market.chip_data, trend_result)]

\* analyze_stock(code) up to its call of analyze
AssembleContext ==
  /\ fn = "analyze_stock"
  /\ Returns(AnalyzeStockArgs(arg))

\* fetch_and_save_stock_data(code) on storage without today's rows
FetchInputs ==
  [code : {EquityCode, CryptoCode}, raw : RawOutcomes, save_raises : BOOLEAN]

Fetch ==
  /\ fn = "fetch_and_save_stock_data"
  /\ Returns(FetchResult(arg.code, arg.raw, arg.save_raises))

\* ------------------------------------ CryptoFetcher.get_onchain_sentiment
\* What the fear-and-greed request can give: the request or the decoding
\* raises; the body reports an error; the index value is a number below
\* 20, between 20 and 80, above 80; or the value is not a number.
FngAnswers == {"raise", "api_error", "extreme_fear", "neutral",
               "extreme_greed", "non_numeric"}

\* What the ticker info can give: reading it raises; no market cap; a
\* market cap; a market cap with a volume that is not a number.
InfoAnswers == {"raise", "no_market_cap", "market_cap", "bad_volume"}

\* Lines 97-111: the first try block.  The index line is appended (line
\* 104) before int(fng_value) is evaluated (line 107).
FearGreedBlock(a) ==
  CASE a = "raise" -> [lines |-> <<>>, failed |-> TRUE]
    [] a = "api_error" -> [lines |-> <<>>, failed |-> FALSE]
    [] a = "extreme_fear" ->
         [lines |-> <<"fng_index", "fng_note_fear">>, failed |-> FALSE]
    [] a = "neutral" -> [lines |-> <<"fng_index">>, failed |-> FALSE]
    [] a = "extreme_greed" ->
         [lines |-> <<"fng_index", "fng_note_greed">>, failed |-> FALSE]
    [] a = "non_numeric" -> [lines |-> <<"fng_index">>, failed |-> TRUE]

\* Lines 115-126: the second try block; the line is appended last.
MarketCapBlock(b) ==
  CASE b = "raise" -> [lines |-> <<>>, failed |-> TRUE]
    [] b = "no_market_cap" -> [lines |-> <<>>, failed |-> FALSE]
    [] b = "market_cap" -> [lines |-> <<"market_cap">>, failed |-> FALSE]
    [] b = "bad_volume" -> [lines |-> <<>>, failed |-> TRUE]

NoSentimentCall == [outcome |-> "unset", text |-> <<>>, attempted |-> {},
                    failed |-> {}]

\* Lines 89-128: both blocks run one after the other, each inside its own
\* try, and info_text is returned.
get_onchain_sentiment(a, b) ==
  LET first == FearGreedBlock(a)
      second == MarketCapBlock(b)
  IN  [outcome |-> "returned",
       text |-> first.lines \o second.lines,
       attempted |-> {"fear_greed", "market_cap"},
       failed |-> (IF first.failed THEN {"fear_greed"} ELSE {})
                    \cup (IF second.failed THEN {"market_cap"} ELSE {})]

Sentiment ==
  /\ fn = "get_onchain_sentiment"
  /\ Returns(get_onchain_sentiment(arg.fng, arg.info))

FnInit ==
  /\ NoRun
  /\ fpc = "call"
  /\ \/ fn = "is_crypto" /\ arg \in ClassifyInputs /\ ret = "unset"
     \/ fn = "_parse_response" /\ arg \in ResponseTexts /\ ret = "unset"
     \/ /\ fn = "wait_exponential"
        /\ arg \in [attempt_number : 1..MaxAttemptNumber,
                    release : TenacityReleases]
        /\ ret = 0
     \/ /\ fn = "analyze_stock" /\ arg \in AnalyzeStockInputs
        /\ ret = NoAnalyzeCall
     \/ /\ fn = "fetch_and_save_stock_data" /\ arg \in FetchInputs
        /\ ret = "unset"
     \/ /\ fn = "get_onchain_sentiment"
        /\ arg \in [fng : FngAnswers, info : InfoAnswers]
        /\ ret = NoSentimentCall

FnNext ==
  \/ Classify
  \/ Parse
  \/ Backoff
  \/ AssembleContext
  \/ Fetch
  \/ Sentiment

FnSpec == FnInit /\ [][FnNext]_vars

\* ================================================================ claims
AnalyzeEnded(t) == anaEnd[t] # "unset"
AllRaised(log) == \A i \in DOMAIN log : log[i] = "raise"
ParseFailures == {"malformed", "schema"}

\* C1 -- Failure isolation: in a finished run over two different symbols A
\* and B where A's fetch returned failure and B's fetch and analysis both
\* succeeded (B's task returned a result), the result list holds exactly
\* one result, B's, whatever storage held for A.
C1_FailureIsolation ==
  (opc = "returned" /\ Len(stock_codes) = 2
                    /\ stock_codes[1] # stock_codes[2])
  => \A a \in Tasks, b \in Tasks :
       ( /\ a # b
         /\ FetchFailed(fetchRes[a])
         /\ fetchRes[b] = "ok" /\ pc[b] = "done" /\ Truthy(result[b]) )
       => results = <<b>>

\* C2 -- PipelineTask state machine: FetchFailed is terminal.  A task whose
\* fetch returned failure performs no analysis step (it is never inside
\* analyze_stock, makes no analyze attempt) and never holds a result.
C2_FetchFailedTerminal ==
  \A t \in Tasks :
    FetchFailed(fetchRes[t])
    => /\ pc[t] \notin {"context", "model", "notify"}
       /\ attempts[t] = 0
       /\ ~Truthy(result[t])

\* C3 -- Retry bound with a credential: the model is never invoked a 4th
\* time; after two failed invocations a third attempt is made; failing on
\* 1 and 2 and succeeding on 3 returns the successful result after exactly
\* 3 attempts; failing on all 3 ends analyze in failure (RetryError) after
\* exactly 3 invocations.
C3_RetryBound ==
  \A t \in Tasks :
    /\ Len(modelLog[t]) <= MaxAttempts
    /\ attempts[t] <= MaxAttempts
    /\ (api_key /\ attempts[t] > 0) => Len(modelLog[t]) = attempts[t]
    /\ modelLog[t] = <<"raise", "raise">>
         => pc[t] = "model" /\ ~AnalyzeEnded(t)
    /\ modelLog[t] = <<"raise", "raise", "good">>
         => /\ AnalyzeEnded(t) /\ anaEnd[t] = "returned"
            /\ Truthy(result[t]) /\ attempts[t] = 3
    /\ (AnalyzeEnded(t) /\ api_key /\ AllRaised(modelLog[t]))
         => /\ Len(modelLog[t]) = 3 /\ attempts[t] = 3
            /\ anaEnd[t] = "retry_error" /\ ~Truthy(result[t])

C3_Witness ==
  \E t \in Tasks, u \in Tasks :
    /\ modelLog[t] = <<"raise", "raise", "good">> /\ Truthy(result[t])
    /\ modelLog[u] = <<"raise", "raise", "raise">>
    /\ anaEnd[u] = "retry_error" /\ pc[u] = "done"

\* C4 -- A parse or schema failure is retried like a network failure: after
\* an invocation whose text does not parse into an AnalysisResult, with
\* fewer than 3 invocations made, another attempt follows; and an analyze
\* that got malformed JSON on every invocation ended after exactly 3
\* invocations, Exhausted.
C4_ParseFailureRetried ==
  \A t \in Tasks :
    /\ ( /\ modelLog[t] # <<>>
         /\ modelLog[t][Len(modelLog[t])] \in ParseFailures
         /\ Len(modelLog[t]) < MaxAttempts )
       => pc[t] = "model"
    /\ ( /\ AnalyzeEnded(t) /\ modelLog[t] # <<>>
         /\ \A i \in DOMAIN modelLog[t] : modelLog[t][i] = "malformed" )
       => Len(modelLog[t]) = MaxAttempts /\ anaEnd[t] = "retry_error"

\* C5 -- No-key short-circuit: without a credential analyze makes no model
\* invocation, is attempted exactly once, never waits for a backoff and
\* returns None.
C5_NoKeyShortCircuit ==
  ~api_key =>
    \A t \in Tasks :
      /\ modelLog[t] = <<>>
      /\ waits[t] = 0
      /\ attempts[t] <= 1
      /\ attempts[t] = 1 <=> AnalyzeEnded(t)
      /\ AnalyzeEnded(t)
           => /\ anaEnd[t] = "returned" /\ ~Truthy(result[t])
              /\ pc[t] = "done"

C5_Witness ==
  \E t \in Tasks :
    ~api_key /\ attempts[t] = 1 /\ anaEnd[t] = "returned" /\ pc[t] = "done"

\* C6 -- Dedup short-circuit: when force_refresh is false and storage
\* reported has_today_data true, the fetch returned success without a call
\* of a raw data source and without a write to storage.
C6_DedupShortCircuit ==
  \A t \in Tasks :
    (~ForceRefreshArg /\ todaySeen[t] = "yes")
    => /\ fetchRes[t] = "ok"
       /\ pc[t] \notin {"fetching", "source"}
       /\ srcCalls[t] = 0
       /\ saves[t] = 0

C6_Witness ==
  \E t \in Tasks :
    todaySeen[t] = "yes" /\ fetchRes[t] = "ok" /\ pc[t] = "done"

\* Two sequential fetches of one symbol on one day: a run over <<s, s>> on a
\* pool of one worker, where the second task starts after the first ended.
TwoSequentialFetches ==
  /\ Len(stock_codes) = 2
  /\ stock_codes[1] = stock_codes[2]
  /\ max_workers = 1

\* C7 (as claimed) -- Fetch idempotence for every outcome of the data
\* source: two sequential fetches of one symbol issue at most one call of
\* an external data source in total.
C7_IdempotentEveryOutcome ==
  TwoSequentialFetches => srcCalls[1] + srcCalls[2] <= 1

\* C7 (amended) -- Two sequential fetches of one symbol issue at most one
\* external call in total when the first returned success; each call issues
\* at most one; and a second external call is made only after a first fetch
\* that returned failure and left storage without today's dataset.
C7_IdempotentAfterSuccess ==
  TwoSequentialFetches =>
    /\ srcCalls[1] <= 1 /\ srcCalls[2] <= 1
    /\ fetchRes[1] = "ok" => srcCalls[1] + srcCalls[2] <= 1
    /\ srcCalls[1] + srcCalls[2] = 2 => FetchFailed(fetchRes[1])

C7_Witness ==
  /\ TwoSequentialFetches
  /\ fetchRes[1] = "ok" /\ srcCalls[1] = 1
  /\ fetchRes[2] = "ok" /\ srcCalls[2] = 0
  /\ todaySeen = <<"no", "yes">>

\* C8 -- Completion barrier: once run has left the pool, and so whenever
\* the aggregate dispatch has started, every submitted task is in a
\* terminal state (none is fetching or analyzing).
C8_CompletionBarrier ==
  (opc \in {"after_pool", "returned"} \/ aggCalls > 0)
  => \A t \in Tasks : pc[t] \in Terminal

C8_Witness ==
  /\ Len(stock_codes) = 2 /\ max_workers = 2
  /\ ~single_stock_notify
  /\ aggCalls = 1
  /\ \A t \in Tasks : pc[t] \in Terminal

\* C9 -- Aggregate dispatch count: in aggregate mode _send_notifications is
\* never called before run has left the pool, and a finished run has called
\* it exactly once when the result list is not empty and send_notification
\* is set, and not at all otherwise; the report is sent at most once.
C9_AggregateDispatchCount ==
  ~single_stock_notify =>
    /\ aggSent <= aggCalls
    /\ opc # "returned" => aggCalls = 0
    /\ opc = "returned" =>
         aggCalls = IF results # <<>> /\ send_notification THEN 1 ELSE 0

C9_Witness ==
  /\ ~single_stock_notify /\ send_notification
  /\ opc = "returned" /\ Len(results) = 2
  /\ aggCalls = 1 /\ aggSent = 1

\* C10 -- The notification modes exclude each other: in per-symbol mode no
\* aggregate report is generated or sent, in aggregate mode no task sends a
\* single-result notification, and no run has both kinds.
C10_ModesExclusive ==
  /\ single_stock_notify => aggCalls = 0 /\ aggSent = 0
  /\ ~single_stock_notify
       => \A t \in Tasks : singleSent[t] = 0 /\ pc[t] # "notify"
  /\ ~(aggCalls > 0 /\ \E t \in Tasks : singleSent[t] > 0)

C10_Witness ==
  /\ single_stock_notify /\ send_notification
  /\ opc = "returned" /\ results # <<>>
  /\ \E t \in Tasks : singleSent[t] = 1
  /\ aggCalls = 0

\* C11 -- Task-boundary containment: every failure raised by a collaborator
\* called inside a task is caught inside the task and turned into a
\* no-result return; no task's future ever holds an exception.
C11_TaskBoundaryContainment ==
  \A t \in Tasks : pc[t] # "raised"

\* Number of letters of a code.
RECURSIVE LetterCount(_)
LetterCount(code) ==
  IF code = <<>> THEN 0
  ELSE (IF Head(code) \in Letters THEN 1 ELSE 0) + LetterCount(Tail(code))

\* C12 -- classify (is_crypto) returns Crypto exactly when the code holds
\* at least one alphabetic character, Equity otherwise; "600519" is Equity,
\* "BTC-USD" is Crypto and the prefixed equity code "sh600519" is Crypto.
C12_ClassifyByLetters ==
  (fn = "is_crypto" /\ fpc = "return") =>
    /\ ret = "Crypto" <=> LetterCount(arg) >= 1
    /\ ret = "Equity" <=> LetterCount(arg) = 0
    /\ arg = EquityCode => ret = "Equity"
    /\ arg = CryptoCode => ret = "Crypto"
    /\ arg = PrefixedCode => ret = "Crypto"

C12_Witness ==
  fn = "is_crypto" /\ fpc = "return" /\ arg = PrefixedCode /\ ret = "Crypto"

\* C13 -- Every AnalysisResult _parse_response (and so analyze) returns
\* comes from a response with all nine fields present and correctly typed
\* and with sentiment_score an integer in 0..100; a response that violates
\* this yields no AnalysisResult.
C13_ResultSchema ==
  (fn = "_parse_response" /\ fpc = "return" /\ ret = "AnalysisResult") =>
    /\ arg.shape = "object"
    /\ arg.missing = "none"
    /\ arg.mistyped = "none"
    /\ arg.score.int
    /\ arg.score.v \in 0..100

BackoffReturned == fn = "wait_exponential" /\ fpc = "return"

\* C14 (as claimed) -- Backoff schedule: the wait before attempt 2 is 2
\* time-units, the wait before attempt 3 is double that, 4, and no wait
\* exceeds 10.
C14_BackoffDoubles ==
  BackoffReturned =>
    /\ arg.attempt_number = 1 => ret = 2
    /\ arg.attempt_number = 2 => ret = 4
    /\ ret <= WaitMax

\* C14 (amended) -- The wait before attempt 2 is 2 time-units; the wait
\* before attempt 3 is 4 with the earlier tenacity releases and 2 with the
\* later ones; every wait lies in 2..10 and is at least the previous wait
\* and at most its double.
C14_BackoffSchedule ==
  BackoffReturned =>
    /\ arg.attempt_number = 1 => ret = 2
    /\ arg.attempt_number = 2 =>
         ret = IF arg.release = "later" THEN 2 ELSE 4
    /\ ret \in WaitMin..WaitMax
    /\ arg.attempt_number > 1 =>
         LET prev == wait_exponential(arg.attempt_number - 1, arg.release)
         IN prev <= ret /\ ret <= 2 * prev

C14_Witness ==
  /\ BackoffReturned
  /\ arg.attempt_number = 2 /\ arg.release = "later" /\ ret = 2

\* C15 -- run submits exactly one task per element of the input list, and
\* in every state the number of tasks executing at the same time is at
\* most max_workers.
C15_PoolBound ==
  /\ Cardinality(Running) <= max_workers
  /\ DOMAIN pc = DOMAIN stock_codes
  /\ opc \in {"collecting", "after_pool", "returned"}
       => \A i \in DOMAIN stock_codes : pc[i] # "new"
  /\ opc = "init" => \A i \in DOMAIN stock_codes : pc[i] = "new"

C15_Witness ==
  /\ Len(stock_codes) = 2 /\ max_workers = 1
  /\ Cardinality(Running) = 1
  /\ \E t \in Tasks : pc[t] = "pending"

\* C16 -- The result list is ordered by completion as the orchestrator
\* sees it: every element is a task that completed with a result and was
\* yielded by as_completed, none twice; the list changes only by the
\* orchestrator appending, at its end, the result of a task that had
\* already completed (no worker step writes it), so a result appended
\* before another belongs to a task that completed before the other was
\* collected; the order is not tied to the input order.
C16_ResultsInvariant ==
  /\ \A i \in DOMAIN results :
       /\ results[i] \in collected
       /\ pc[results[i]] = "done"
       /\ result[results[i]] # None
  /\ \A i \in DOMAIN results, j \in DOMAIN results :
       results[i] = results[j] => i = j

C16_ResultsStep ==
  results' # results =>
    \E t \in Tasks \ collected :
      /\ pc[t] = "done"
      /\ results' = Append(results, t)
      /\ collected' = collected \cup {t}
      /\ UNCHANGED <<taskVars, db>>

C16_CompletionOrder == []C16_ResultsInvariant /\ [][C16_ResultsStep]_vars

C16_Witness ==
  /\ results = <<2, 1>>
  /\ opc = "returned"

\* C17 -- Asset-class exclusivity of the context: for an Equity symbol the
\* sentiment text passed to analyze is always empty and the sentiment
\* source is never called; for a Crypto symbol the realtime-quote and
\* chip-distribution sources are never called and the context built by
\* _enhance_context gains no realtime or chip entry.
C17_AssetClassExclusive ==
  (fn = "analyze_stock" /\ fpc = "return")
  => /\ LetterCount(arg.code) = 0
          => /\ ret.extra_context = ""
             /\ "get_onchain_sentiment" \notin ret.calls
     /\ LetterCount(arg.code) > 0
          => /\ ret.calls \cap {"get_realtime_quote",
                                "get_chip_distribution"} = {}
             /\ ret.gained \cap {"realtime", "chip"} = {}

C17_Witness ==
  /\ fn = "analyze_stock" /\ fpc = "return"
  /\ arg.code = EquityCode /\ arg.sentiment # ""
  /\ ret.outcome = "analyze"
  /\ ret.gained = {"stock_name", "realtime", "chip", "trend_analysis"}

\* C18 -- Fetch error kinds are distinguished for both asset classes: a
\* source that returns no rows yields EmptyDataset, and a transport or
\* parse failure of the underlying source yields SourceUnavailable
\* carrying the cause message; a transport failure is never reported as
\* an empty dataset.
C18_FetchErrorKinds ==
  (fn = "fetch_and_save_stock_data" /\ fpc = "return")
  => /\ arg.raw = "empty" => ret = "empty"
     /\ arg.raw = "error" => ret = "exc"

\* Lines of the text that come from one sub-fetch.
LinesOf(sub) ==
  IF sub = "fear_greed" THEN {"fng_index", "fng_note_fear", "fng_note_greed"}
  ELSE {"market_cap"}
Range(seq) == {seq[i] : i \in DOMAIN seq}

\* C19 -- get_onchain_sentiment never raises: for every combination of
\* failure and success of its two sub-fetches it returns a string, a
\* failed sub-fetch contributes no text, the other sub-fetch is still
\* attempted, and when both fail the returned text is empty.
C19_SentimentDegrades ==
  (fn = "get_onchain_sentiment" /\ fpc = "return")
  => /\ ret.outcome = "returned"
     /\ ret.attempted = {"fear_greed", "market_cap"}
     /\ \A sub \in ret.failed : Range(ret.text) \cap LinesOf(sub) = {}
     /\ ret.failed = {"fear_greed", "market_cap"} => ret.text = <<>>

\* Steps a task can still take, at most: one per position of
\* process_single_stock, one per attempt left to analyze, and its
\* collection by the orchestrator.
StepsLeft(t) ==
  CASE pc[t] \in {"new", "pending"} -> 7 + MaxAttempts
    [] pc[t] = "fetching" -> 6 + MaxAttempts
    [] pc[t] = "source" -> 5 + MaxAttempts
    [] pc[t] = "context" -> 4 + MaxAttempts
    [] pc[t] = "model" -> 3 + (MaxAttempts - attempts[t])
    [] pc[t] = "notify" -> 2
    [] pc[t] \in Terminal -> IF t \in collected THEN 0 ELSE 1

RECURSIVE StepsLeftUpTo(_)
StepsLeftUpTo(n) == IF n = 0 THEN 0 ELSE StepsLeft(n) + StepsLeftUpTo(n - 1)

RunStepsLeft ==
  CASE opc = "init" -> 3
    [] opc = "collecting" -> 2
    [] opc = "after_pool" -> 1
    [] opc \in {"returned", "idle"} -> 0

Measure == RunStepsLeft + StepsLeftUpTo(Len(stock_codes))

C20_Progress ==
  /\ opc = "returned" \/ ENABLED Next
  /\ opc = "returned" => \A t \in Tasks : pc[t] \in Terminal
  /\ \A t \in Tasks : attempts[t] <= MaxAttempts
  /\ Measure \in Nat

C20_MeasureDecreases == Measure' < Measure

\* C20 -- Termination: provided every external call returns or raises in
\* finite time, every task submitted by run eventually reaches a terminal
\* state and run eventually returns; the retry loop in analyze cannot loop
\* for ever because it makes at most 3 attempts.  Stated as: until run
\* has returned some step is always possible, every step lowers a measure
\* that is a natural number (so no run takes more than Measure steps), no
\* analyze makes more than 3 attempts, and once run has returned every
\* task is terminal.
C20_Termination == []C20_Progress /\ [][C20_MeasureDecreases]_vars

C20_Witness ==
  /\ opc = "returned" /\ Len(stock_codes) = 2
  /\ \E t \in Tasks, u \in Tasks :
       /\ attempts[t] = MaxAttempts /\ anaEnd[t] = "retry_error"
       /\ pc[u] = "raised"

\* C21 -- Dry run: when run is called with dry_run true, each task
\* performs only the fetch step; no task calls analyze_stock or the model,
\* no per-symbol or aggregate notification is dispatched in either
\* notification mode, and run returns an empty collection.
C21_DryRunFetchOnly ==
  dry_run =>
    /\ \A t \in Tasks :
         /\ pc[t] \in {"new", "pending", "fetching", "source", "done"}
         /\ pc[t] = "done" => fetchRes[t] # "unset"
         /\ attempts[t] = 0 /\ modelLog[t] = <<>> /\ anaEnd[t] = "unset"
         /\ result[t] = None
         /\ singleSent[t] = 0
    /\ aggCalls = 0 /\ aggSent = 0
    /\ results = <<>>

C21_Witness ==
  /\ dry_run /\ send_notification /\ single_stock_notify
  /\ opc = "returned" /\ Len(stock_codes) = 2
  /\ fetchRes[1] = "ok" /\ saves[1] = 1
  /\ FetchFailed(fetchRes[2])

\* The fetch of task t returns in this step.
FetchReturnsNow(t) == fetchRes[t] = "unset" /\ fetchRes'[t] # "unset"

\* C22 -- Storage is written at most once per fetch_and_save_stock_data
\* call and only with a non-empty dataset: when the source returns
\* nothing, returns an empty dataset or raises, the call returns failure
\* and leaves storage unchanged.
C22_SaveStep ==
  /\ \A t \in Tasks :
       /\ saves'[t] \in {saves[t], saves[t] + 1}
       /\ saves'[t] <= 1
       /\ saves'[t] # saves[t] => /\ FetchReturnsNow(t)
                                  /\ fetchRes'[t] \in {"ok", "exc"}
       /\ (FetchReturnsNow(t) /\ FetchFailed(fetchRes'[t])) => db' = db
       /\ (FetchReturnsNow(t) /\ fetchRes'[t] = "empty")
            => saves'[t] = saves[t]
  /\ db' # db =>
       \E t \in Tasks :
         /\ FetchReturnsNow(t) /\ fetchRes'[t] = "ok"
         /\ saves'[t] = saves[t] + 1
         /\ db' = [db EXCEPT ![stock_codes[t]] = "today"]
  /\ \A code \in {EquityCode, CryptoCode}, raw \in {"empty", "error"},
        save_raises \in BOOLEAN :
       FetchFailed(FetchResult(code, raw, save_raises))

C22_StorageWrittenOnce == [][C22_SaveStep]_vars

C22_Witness ==
  \E t \in Tasks, u \in Tasks :
    /\ fetchRes[t] = "empty" /\ srcCalls[t] = 1 /\ saves[t] = 0
    /\ db[stock_codes[t]] = "old"
    /\ fetchRes[u] = "ok" /\ saves[u] = 1
    /\ db[stock_codes[u]] = "today"

====
